---- MODULE Spec2Model ----
(***************************************************************************)
(* Model of the batch downloader of network_tools/batch_downloader.py:     *)
(* BatchDownloader.download_batch dispatching BatchDownloader.download_file*)
(* coroutines under an asyncio.Semaphore, the partial (.part) and final    *)
(* files they write, the persisted state file, and the per-origin cooldown *)
(* table of _check_domain_cooldown.                                        *)
(*                                                                         *)
(* One action is one atomic segment of a coroutine, i.e. the code between  *)
(* two awaits (asyncio runs a coroutine without interruption up to its     *)
(* next await).  Sizes are in bytes; a response body is delivered in       *)
(* chunks of ChunkBytes bytes.                                             *)
(***************************************************************************)
EXTENDS Integers, Sequences, FiniteSets, TLC

\* ------------------------------------------------------------------ bounds
MaxBatch == 2       \* longest batch passed to download_batch, and number of distinct URLs
MaxChunks == 2      \* chunks of the largest resource
MaxRetriesCfg == 1  \* largest max_retries configured
ChunkBytes == 600   \* bytes per streamed chunk (chunk_size)
SleepHorizon == 4000 \* tenths of a second after which a backoff sleep is cut
MaxCallers == 3     \* download_file calls that go through the origin throttle together
MaxTime == 2        \* the clock ticks freely up to here, then only jumps to wake-up times
LongDelay == 400    \* a configured min_delay/max_delay above the cap (40 s)
ManyRetries == 27   \* a max_retries large enough for 30 + retry_count * 10 to pass 300
MaxPenalized == 2   \* calls followed together through attempts that the origin rejects

\* ------------------------------------------------------- program constants
MinSize == 1024            \* max(size, 1024) in fetch_file_size
DefaultSize == 1048576     \* 1024 * 1024 placeholder size
SaveEvery == 10            \* download_batch saves the state every 10 completions
DefaultMinDelay == 10      \* min_delay = 1.0 s, in tenths of a second
DefaultMaxDelay == 50      \* max_delay = 5.0 s
QuietMaxDelay == 5         \* 0.5 s: upper end of the base cooldown without random_delay
CooldownCap == 300         \* 30.0 s: cap of the adaptive cooldown
PenaltyBase == 300         \* 30 s
PenaltyStep == 100         \* 10 s per retry
PenaltyCap == 3000         \* 300 s
NoCooldown == -1           \* the origin has no entry in domain_cooldown

URLs == 1..MaxBatch
Jobs == 1..MaxBatch

\* Two strings that are no download URLs: "ftp://host/f" and "http:///f".
FtpURL == -1
NoHostURL == -2
Inputs == URLs \cup {FtpURL, NoHostURL}

\* urlparse(url).scheme and .netloc.
Scheme(u) == IF u = FtpURL THEN "ftp" ELSE "http"

Netloc(u) == IF u = NoHostURL THEN "" ELSE "host"

\* _validate_url: all([scheme in ('http', 'https'), netloc]).
ValidateUrl(u) == Scheme(u) \in {"http", "https"} /\ Netloc(u) # ""

\* Behaviour of the origin (and of the local path) for one URL.
\*   ok      every request succeeds
\*   flaky   a request may fail with httpx.RequestError at connect time or
\*           in the middle of the body, or succeed
\*   down    every request fails with httpx.RequestError
\*   e404 / e403 / e500  every request fails raise_for_status
\*   openerr open(temp_path, mode) raises OSError
\*   staterr temp_path.exists() raises PermissionError
\*   renameerr  every request succeeds, but temp_path.rename(file_path) raises
\*           OSError and so does shutil.copy2(temp_path, file_path)
Behaviours ==
    {"ok", "flaky", "down", "e404", "e403", "e500", "openerr", "staterr", "renameerr"}

NoRange == -1
NoIno == 0

VARIABLES
    cfg,            \* constructor arguments: max_workers, max_retries, resume, overwrite, continue_from_state
    batch,          \* the urls list given to download_batch
    beh,            \* behaviour of each URL's origin
    inodes,         \* path -> contents of the files ever created at <path>.part
    tempIno,        \* path -> which of them <path>.part names now (NoIno: no such file)
    finalIno,       \* path -> which of them the final path names now
    stateFile,      \* the persisted state file
    rerun,          \* FALSE in the first run of the command, TRUE when it is run again
    phase,          \* "constructed" | "running" | "returned" | "interrupted"
    stats,          \* self.stats counters
    completed_urls, \* self.stats["completed_urls"]
    tasks,          \* urls dispatched by download_batch (after filtering)
    job,            \* per task: the locals of limited_download/download_file
    permits,        \* value of the semaphore
    doneQ,          \* finished tasks in completion order, not yet consumed by as_completed
    completed_tasks,\* completed_tasks of download_batch
    results,        \* results dict of download_batch
    prev,           \* outcome of each URL in the previous run (history)
    direct,         \* what a direct call of download_file returned
    now,            \* time.time(), in tenths of a second
    domain_cooldown,\* self.domain_cooldown: origin -> (last access, cooldown)
    caller,         \* per download_file call: its position around _check_domain_cooldown
    released,       \* per origin: the updates of line 459, in order (history)
    state_writable  \* whether writes of the state file succeed

vars == <<cfg, batch, beh, inodes, tempIno, finalIno, stateFile, rerun, phase, stats,
          completed_urls, tasks, job, permits, doneQ, completed_tasks, results, prev,
          direct, now, domain_cooldown, caller, released, state_writable>>

\* ------------------------------------------------------------- resources
\* Number of chunks of the resource behind a URL.
ResourceChunks(u) == IF u = 1 THEN MaxChunks ELSE 1

\* self.chunk_size: the size of the chunks asked of aiter_bytes (line 677);
\* a resource is a whole number of them.
ChunkSize == cfg.chunk_size

ChunkOf(u, i) == <<u, i>>

\* The body of the resource from chunk index `from` + 1 on.
BodyFrom(u, from) == [i \in 1..(ResourceChunks(u) - from) |-> ChunkOf(u, from + i)]

Resource(u) == BodyFrom(u, 0)

ResourceBytes(u) == ResourceChunks(u) * ChunkSize

\* _get_filename_from_url: every URL of the model has its own file name.
PathOf(u) == u

Max(a, b) == IF a >= b THEN a ELSE b

IsPrefix(s, t) == Len(s) <= Len(t) /\ \A i \in 1..Len(s) : s[i] = t[i]


\* ------------------------------------------------------------ file system
FileBytes(p, ino) == Len(inodes[p][ino]) * ChunkSize

Exists(link) == link # NoIno

\* f.write(chunk) on a handle opened "ab": O_APPEND, always at the end of file.
\* On a handle opened "wb": at the handle's own position (which is the end of
\* file unless another handle wrote the same file).
WriteAt(content, pos, c) ==
    IF pos < Len(content)
    THEN [content EXCEPT ![pos + 1] = c]
    ELSE content \o [i \in 1..(pos - Len(content)) |-> <<0, 0>>] \o <<c>>

\* temp_path.rename(file_path): the final path names the partial file's
\* content; a file it named before is gone unless a handle still has it open.
Renamed(p, j) ==
    LET old == finalIno[p]
        held == \E i \in DOMAIN job : i # j /\ PathOf(job[i].url) = p /\ job[i].fd = old
    IN IF Exists(old) /\ old # tempIno[p] /\ ~held
       THEN [inodes EXCEPT ![p][old] = <<>>]
       ELSE inodes

\* _save_state: dump completed_urls and the counters to the state file.
SavedStateOff(done, st) ==
    [exists |-> TRUE, kind |-> "saved", completed_urls |-> {}, stats |-> st]

SavedState(done, st) ==
    [exists |-> TRUE, kind |-> "saved", completed_urls |-> done, stats |-> st]

NoStateFile == [exists |-> FALSE, kind |-> "none", completed_urls |-> {}, stats |-> <<>>]

\* A state file that _save_state did not write.  Its kind says what
\* _load_state meets: "unreadable" (open raises), "notjson" (json.load
\* raises), "array" (a JSON array: .get raises AttributeError), "number"
\* ({"completed_urls": 5}: set(5) raises TypeError), "string"
\* ({"completed_urls": "ab"}: set("ab") is the set of its characters).
Character == -3

ForeignKinds == {"unreadable", "notjson", "array", "number", "string"}

ForeignStateFile(kind) ==
    [exists |-> TRUE, kind |-> kind,
     completed_urls |-> IF kind = "string" THEN {Character} ELSE {}, stats |-> <<>>]

\* _save_state when the write fails (lines 430-431 log a warning): open
\* raised and the file is as it was, or the write broke off and left a
\* truncated file.
SaveFailureCaughtOff == FALSE

SaveFailureCaught == TRUE

SaveState(done, st) ==
    IF state_writable THEN {SavedState(done, st)}
    ELSE {stateFile, ForeignStateFile("notjson")}

\* _load_state, guarded by `continue_from_state and os.path.exists(state_file)`:
\* set(saved_state.get("completed_urls", [])), or nothing when an exception
\* is caught at line 411.
LoadState(c, sf) ==
    IF c.continue_from_state /\ sf.exists /\ sf.kind \in {"saved", "string"}
    THEN sf.completed_urls ELSE {}

ZeroStats == [successful |-> 0, failed |-> 0, skipped |-> 0, total_bytes |-> 0]

Bump(st, field) == [st EXCEPT ![field] = @ + 1]

\* --------------------------------------------------------------- job state
NoRet == [success |-> FALSE, kind |-> "none", bytes |-> 0]

\* The tuple download_file returns; kind names the path string returned:
\* "final" (file_path), "temp" (temp_path) or "empty" ("").
Ret(ok, kind, n) == [success |-> ok, kind |-> kind, bytes |-> n]

NewJob(u) ==
    [pc |-> "queued", url |-> u, downloaded_bytes |-> 0, retry_count |-> 0,
     mode |-> "wb", file_size |-> 0, fd |-> NoIno, pos |-> 0, resp |-> <<>>,
     ret |-> NoRet, raised |-> FALSE,
     \* history of the job, for the properties
     attempts |-> 0, probes |-> 0, jitters |-> 0, written |-> 0, range |-> NoRange, resumed_from |-> NoRange, resumed_prefix |-> FALSE,
     failedInc |-> 0, outcome |-> "none", reqCompleted |-> FALSE]

TaskIds == 1..Len(tasks)

InFile(j) == job[j].pc \in {"throttle", "probe", "connect", "stream", "backoff"}

\* --------------------------------------------------------- origin throttle
\* The origins (urlparse(url).netloc) the calls go to.
Origins == 1..2

NoEntry == [known |-> FALSE, last_access |-> 0, cooldown |-> 0, penalized |-> FALSE]

Min(a, b) == IF a <= b THEN a ELSE b

\* prev_cooldown * 1.2, to the tenth of a second.
Grow(c) == (c * 12) \div 10

\* random.uniform(lo, hi): the two ends of the range.
Uniform(lo, hi) == {lo, hi}

\* Lines 448-449: the base cooldown drawn on every call.
BaseCooldowns ==
    IF cfg.random_delay THEN Uniform(cfg.min_delay, cfg.max_delay)
    ELSE Uniform(0, QuietMaxDelay)

\* Lines 452-457: the cooldown stored for an origin, given its entry e.
NextCooldown(e, base) == IF e.known THEN Min(Grow(e.cooldown), CooldownCap) ELSE base

\* Line 733: the cooldown stored after a 403 or 429, retry_count already
\* incremented.
PenaltyOff(retry_count) == Min(retry_count * PenaltyStep, PenaltyCap)

Penalty(retry_count) == Min(PenaltyBase + retry_count * PenaltyStep, PenaltyCap)

NewCaller(o) ==
    [pc |-> "idle", origin |-> o, wake |-> 0, retry_count |-> 0,
     \* history of the call, for the properties
     seen |-> NoCooldown, waited |-> FALSE, penalty |-> NoCooldown, attempts |-> 0]

\* ------------------------------------------------------------------- Init
Configs ==
    [max_workers : 1..MaxBatch, max_retries : 0..MaxRetriesCfg,
     resume : BOOLEAN, overwrite : BOOLEAN, continue_from_state : BOOLEAN,
     random_delay : {FALSE}, min_delay : {DefaultMinDelay}, max_delay : {DefaultMaxDelay},
     chunk_size : {ChunkBytes}]

Batches == UNION {[1..n -> Inputs] : n \in 1..MaxBatch}

NoResults == [u \in URLs |-> "none"]

\* A freshly constructed downloader (__init__) over an empty output directory.
FreshDownloads ==
    /\ inodes = [p \in URLs |-> <<>>]
    /\ tempIno = [p \in URLs |-> NoIno]
    /\ finalIno = [p \in URLs |-> NoIno]
    /\ rerun = FALSE
    /\ phase = "constructed"
    /\ stats = ZeroStats
    /\ tasks = <<>>
    /\ job = <<>>
    /\ permits = 0
    /\ doneQ = <<>>
    /\ completed_tasks = 0
    /\ results = NoResults
    /\ prev = [u \in Inputs |-> {}]
    /\ direct = NoRet
    /\ now = 0
    /\ domain_cooldown = [o \in Origins |-> NoEntry]
    /\ released = [o \in Origins |-> <<>>]

Fresh ==
    /\ FreshDownloads
    /\ stateFile = NoStateFile
    /\ completed_urls = {}
    /\ state_writable = TRUE

\* One URL, any behaviour of its origin.
UnitConfigs ==
    [max_workers : {1}, max_retries : 0..MaxRetriesCfg,
     resume : BOOLEAN, overwrite : BOOLEAN, continue_from_state : BOOLEAN,
     random_delay : BOOLEAN, min_delay : {DefaultMinDelay}, max_delay : {DefaultMaxDelay},
     chunk_size : {ChunkBytes}]

InitUnit ==
    /\ cfg \in UnitConfigs
    /\ batch \in {b \in Batches : Len(b) = 1}
    /\ beh \in {b \in [URLs -> Behaviours] : \A u \in URLs : u # batch[1] => b[u] = "ok"}
    /\ caller = <<>>
    /\ Fresh

\* Several URLs, each origin answering the same way on every request.
BatchBehaviours == {"ok", "e404", "openerr", "staterr"}

InitBatch ==
    /\ cfg \in Configs
    /\ batch \in {b \in Batches : Len(b) > 1}
    /\ beh \in [URLs -> BatchBehaviours]
    /\ caller = <<>>
    /\ Fresh

\* ------------------------------------------------- download_batch: set-up
\* Lines 827-847: drop the URLs already completed when continuing from state.
FilterCompleted(urls, done) ==
    IF cfg.continue_from_state
    THEN SelectSeq(urls, LAMBDA u : u \notin done)
    ELSE urls

\* Lines 805-817: drop the URLs that fail _validate_url.
FilterValid(urls) == SelectSeq(urls, ValidateUrl)

\* Lines 849-860: completed_urls is emptied only without continue_from_state.
ResetCompletedAlways(c, done) == {}

ResetCompleted(c, done) == IF c.continue_from_state THEN done ELSE {}

\* Lines 801-900: filter the list, reset the counters, create the semaphore and
\* one task per url.  With no valid URL download_batch returns {} at once
\* (lines 819-821), before it touches the counters or the state file.
StartBatch ==
    /\ phase = "constructed"
    /\ FilterValid(batch) # <<>>
    /\ LET urls == FilterCompleted(FilterValid(batch), completed_urls)
           st == IF cfg.continue_from_state THEN stats ELSE ZeroStats
           done == ResetCompleted(cfg, completed_urls)
       IN /\ tasks' = urls
          /\ job' = [j \in 1..Len(urls) |-> NewJob(urls[j])]
          /\ stats' = st
          /\ completed_urls' = done
          /\ permits' = cfg.max_workers
          /\ doneQ' = <<>>
          /\ completed_tasks' = 0
          /\ results' = NoResults
          /\ IF urls = <<>>
             THEN /\ phase' = "returned"
                  /\ stateFile' \in SaveState(done, st)
             ELSE /\ phase' = "running"
                  /\ UNCHANGED stateFile
    /\ UNCHANGED <<direct, now, domain_cooldown, caller, released>>
    /\ UNCHANGED <<cfg, batch, beh, state_writable, inodes, tempIno, finalIno, rerun, prev>>

\* Lines 801-821 when no URL of the list is valid.
NothingToDownload ==
    /\ phase = "constructed"
    /\ FilterValid(batch) = <<>>
    /\ phase' = "returned"
    /\ UNCHANGED <<direct, now, domain_cooldown, caller, released>>
    /\ UNCHANGED <<cfg, batch, beh, state_writable, inodes, tempIno, finalIno, stateFile, rerun, stats,
                   completed_urls, tasks, job, permits, doneQ, completed_tasks, results, prev>>

\* download_file is called directly, not through download_batch, with a string
\* that fails _validate_url: lines 506-510, which run without an await.
DirectCall ==
    /\ phase = "constructed"
    /\ \E u \in Inputs :
          /\ ~ValidateUrl(u)
          /\ direct' = Ret(FALSE, "empty", 0)
          /\ stats' = Bump(stats, "failed")
    /\ phase' = "direct"
    /\ UNCHANGED <<now, domain_cooldown, caller, released>>
    /\ UNCHANGED <<cfg, batch, beh, state_writable, inodes, tempIno, finalIno, stateFile, rerun,
                   completed_urls, tasks, job, permits, doneQ, completed_tasks, results, prev>>

\* ------------------------------------------------ download_file: endings
\* Line 879: leaving `async with sem` gives the permit back.
ReleasePermitOff(p) == p

ReleasePermit(p) == p + 1

\* download_file returns: the task leaves `async with sem` and finishes.
Return(j, rec, ret, outcome) ==
    /\ job' = [job EXCEPT ![j] = [rec EXCEPT !.pc = "done", !.ret = ret, !.outcome = outcome,
                                             !.fd = NoIno, !.resp = <<>>]]
    /\ permits' = ReleasePermit(permits)
    /\ doneQ' = Append(doneQ, j)

\* Lines 738-746 / 761-769: has the job used up its retries?
RetriesExhaustedOff(retry_count) == retry_count >= cfg.max_retries

RetriesExhausted(retry_count) == retry_count > cfg.max_retries

\* Lines 725 and 757: which errors of an attempt lead to another attempt.
\* Both except clauses retry, whatever the error.
RetryableOnlyTransient(kind) == kind \notin {"e404"}

Retryable(kind) == TRUE

\* Lines 738-746 / 761-769: what <path>.part names once the job has given up.
\* The code returns without touching the file.
PartialAfterFailureOff(p) == NoIno

PartialAfterFailure(p) == tempIno[p]

\* Lines 738-746 / 761-769: completed_urls once the job has given up.  The
\* URL is not added.
CompletedAfterFailureOff(done, u) == done \cup {u}

CompletedAfterFailure(done, u) == done

\* Lines 725-777: an attempt failed with an error of the given kind.
OnError(j, rec, kind) ==
    LET r == [rec EXCEPT !.retry_count = @ + 1, !.fd = NoIno, !.resp = <<>>] IN
    IF RetriesExhausted(r.retry_count) \/ ~Retryable(kind)
    THEN /\ Return(j, [r EXCEPT !.failedInc = @ + 1], Ret(FALSE, "final", r.downloaded_bytes), "failure")
         /\ stats' = Bump(stats, "failed")
         /\ tempIno' = [tempIno EXCEPT ![PathOf(r.url)] = PartialAfterFailure(PathOf(r.url))]
         /\ completed_urls' = CompletedAfterFailure(completed_urls, r.url)
    ELSE /\ job' = [job EXCEPT ![j] = [r EXCEPT !.pc = "backoff"]]
         /\ UNCHANGED <<stats, permits, doneQ, tempIno, completed_urls>>

\* Lines 779-788: the outermost handler of download_file.
OuterHandlerOff(j, rec) ==
    /\ Return(j, [rec EXCEPT !.raised = TRUE, !.failedInc = @ + 1], Ret(FALSE, "empty", 0), "failure")
    /\ stats' = Bump(stats, "failed")

OuterHandler(j, rec) ==
    /\ Return(j, [rec EXCEPT !.failedInc = @ + 1], Ret(FALSE, "empty", 0), "failure")
    /\ stats' = Bump(stats, "failed")

\* ----------------------------------------------- download_file: requests
\* _get_resume_header: the start of the Range header, NoRange for no header.
GetResumeHeader(p) ==
    IF ~cfg.resume \/ ~Exists(tempIno[p]) THEN NoRange
    ELSE IF FileBytes(p, tempIno[p]) > 0 THEN FileBytes(p, tempIno[p]) ELSE NoRange

\* Lines 634-635: `headers = self._get_resume_header(url, temp_path)` is
\* followed by `headers = self._enhance_headers(url)`, which builds a new dict
\* from self.headers: the Range header computed first is dropped.
RequestRangeKept(resumeRange) == resumeRange

RequestRange(resumeRange) == NoRange

\* Lines 630-641: enter the loop body and issue the streamed GET.
IssueGet(rec) ==
    [rec EXCEPT !.pc = "connect", !.attempts = @ + 1,
                !.range = RequestRange(GetResumeHeader(PathOf(rec.url))),
                !.reqCompleted = @ \/ rec.url \in completed_urls]

\* The origin's answer to a GET: "ok" with a body, or an HTTP error status.
\* A Range request is answered with the rest of the resource (206), or with
\* 416 when nothing is left.
ServerBody(u, range) ==
    IF range = NoRange THEN Resource(u) ELSE BodyFrom(u, range \div ChunkSize)

RangeSatisfiable(u, range) == range = NoRange \/ range < ResourceBytes(u)

\* fetch_file_size: max(Content-Length, 1024) when a probe answers, the 1 MiB
\* placeholder otherwise.
ProbeSizesOff(u) ==
    CASE beh[u] \in {"ok", "openerr", "renameerr"} -> {Max(ResourceBytes(u), MinSize)}
      [] beh[u] = "flaky" -> {Max(ResourceBytes(u), MinSize), 0}
      [] OTHER -> {0}

ProbeSizes(u) ==
    CASE beh[u] \in {"ok", "openerr", "renameerr"} -> {Max(ResourceBytes(u), MinSize)}
      [] beh[u] = "flaky" -> {Max(ResourceBytes(u), MinSize), DefaultSize}
      [] OTHER -> {DefaultSize}

\* ------------------------------------------- download_file: the coroutine
\* temp_path.rename(file_path) (lines 612 and 699) raises: the partial file
\* is gone, or the file system refuses.
RenameFails(u) == ~Exists(tempIno[PathOf(u)]) \/ beh[u] = "renameerr"

\* `async with sem` (line 879): a task enters only while a permit is left.
SemFreeOff == TRUE

SemFree == permits > 0

\* Line 578: `file_path.exists() and not self.overwrite`.
SkipExistingOff(p) == FALSE

SkipExisting(p) == Exists(finalIno[p]) /\ ~cfg.overwrite

\* limited_download takes the semaphore (waiters are served first come, first
\* served) and download_file runs up to its first await, lines 506-525.
Acquire(j) ==
    /\ phase = "running"
    /\ j \in TaskIds
    /\ job[j].pc = "queued"
    /\ SemFree
    /\ \A i \in 1..(j - 1) : job[i].pc # "queued"
    /\ IF job[j].url \in completed_urls
       THEN /\ job' = [job EXCEPT ![j] = [@ EXCEPT !.pc = "done", !.ret = Ret(TRUE, "final", 0),
                                                   !.outcome = "skip"]]
            /\ doneQ' = Append(doneQ, j)
            /\ stats' = Bump(stats, "skipped")
            /\ UNCHANGED permits
       ELSE /\ job' = [job EXCEPT ![j].pc = "throttle"]
            /\ permits' = permits - 1
            /\ UNCHANGED <<doneQ, stats>>
    /\ UNCHANGED <<direct, now, domain_cooldown, caller, released>>
    /\ UNCHANGED <<cfg, batch, beh, state_writable, inodes, tempIno, finalIno, stateFile, rerun, phase,
                   completed_urls, tasks, completed_tasks, results, prev>>

\* After the cooldown and jitter sleeps: lines 536-590, up to the size probe.
Throttle(j) ==
    /\ phase = "running"
    /\ j \in TaskIds
    /\ job[j].pc = "throttle"
    /\ LET u == job[j].url
           p == PathOf(u)
           \* lines 528-532: the one jitter sleep of the call
           slept == [job[j] EXCEPT !.jitters = IF cfg.random_delay THEN @ + 1 ELSE @]
           rec == [slept EXCEPT !.mode = IF cfg.resume /\ Exists(tempIno[p]) THEN "ab" ELSE "wb"]
       IN IF beh[u] = "staterr"
          THEN /\ OuterHandler(j, slept)
               /\ UNCHANGED <<completed_urls, stateFile>>
          ELSE IF SkipExisting(p)
          THEN /\ Return(j, rec, Ret(TRUE, "final", 0), "skip")
               /\ stats' = Bump(stats, "skipped")
               /\ completed_urls' = completed_urls \cup {u}
               /\ stateFile' \in SaveState(completed_urls', stats')
          ELSE /\ job' = [job EXCEPT ![j] = [rec EXCEPT !.pc = "probe",
                                                 !.reqCompleted = @ \/ u \in completed_urls]]
               /\ UNCHANGED <<stats, completed_urls, stateFile, permits, doneQ>>
    /\ UNCHANGED <<direct, now, domain_cooldown, caller, released>>
    /\ UNCHANGED <<cfg, batch, beh, state_writable, inodes, tempIno, finalIno, rerun, phase,
                   tasks, completed_tasks, results, prev>>

\* fetch_file_size answers: lines 591-641, up to the first streamed GET.
Probe(j) ==
    /\ phase = "running"
    /\ j \in TaskIds
    /\ job[j].pc = "probe"
    /\ \E size \in ProbeSizes(job[j].url) :
        LET u == job[j].url
            p == PathOf(u)
            resuming == cfg.resume /\ Exists(tempIno[p])
            have == IF resuming THEN FileBytes(p, tempIno[p]) ELSE 0
            rec == [job[j] EXCEPT !.file_size = size, !.downloaded_bytes = have,
                                  !.probes = @ + 1,
                                  !.resumed_from = IF resuming THEN have ELSE NoRange,
                                  !.resumed_prefix = resuming /\ IsPrefix(inodes[p][tempIno[p]], Resource(u))]
        IN IF resuming /\ have >= size /\ RenameFails(u)
           THEN \* lines 625-628: the rename raised, start over in "wb" mode
                /\ job' = [job EXCEPT ![j] =
                               IssueGet([rec EXCEPT !.downloaded_bytes = 0, !.mode = "wb"])]
                /\ UNCHANGED <<inodes, finalIno, tempIno, stats, completed_urls, stateFile,
                               permits, doneQ>>
           ELSE IF resuming /\ have >= size
           THEN \* lines 610-624: the partial file is complete, promote it
                /\ finalIno' = [finalIno EXCEPT ![p] = tempIno[p]]
                /\ tempIno' = [tempIno EXCEPT ![p] = NoIno]
                /\ inodes' = Renamed(p, j)
                /\ Return(j, rec, Ret(TRUE, "final", size), "success")
                /\ stats' = Bump(stats, "successful")
                /\ completed_urls' = completed_urls \cup {u}
                /\ stateFile' \in SaveState(completed_urls', stats')
           ELSE /\ job' = [job EXCEPT ![j] = IssueGet(rec)]
                /\ UNCHANGED <<inodes, finalIno, tempIno, stats, completed_urls, stateFile,
                               permits, doneQ>>
    /\ UNCHANGED <<direct, now, domain_cooldown, caller, released>>
    /\ UNCHANGED <<cfg, batch, beh, state_writable, rerun, phase, tasks, completed_tasks, results, prev>>

\* The response of the streamed GET arrives: lines 641-677, up to the first
\* chunk read, or the except clauses of lines 725-777.
Connect(j) ==
    /\ phase = "running"
    /\ j \in TaskIds
    /\ job[j].pc = "connect"
    /\ LET u == job[j].url
           p == PathOf(u)
           rec == job[j]
           body == ServerBody(u, rec.range)
           total == Len(body) * ChunkSize
           size == IF total > 0 THEN total + rec.downloaded_bytes ELSE rec.file_size
           \* open(temp_path, mode): "wb" truncates, both modes create
           ino == IF Exists(tempIno[p]) THEN tempIno[p] ELSE Len(inodes[p]) + 1
           opened == [rec EXCEPT !.pc = "stream", !.file_size = size, !.fd = ino,
                                 !.pos = 0, !.resp = body]
           Fail(kind) == /\ OnError(j, rec, kind)
                         /\ UNCHANGED inodes
           Ok == /\ job' = [job EXCEPT ![j] = opened]
                 /\ inodes' = IF ~Exists(tempIno[p]) THEN [inodes EXCEPT ![p] = Append(@, <<>>)]
                              ELSE IF rec.mode = "wb" THEN [inodes EXCEPT ![p][ino] = <<>>]
                              ELSE inodes
                 /\ tempIno' = [tempIno EXCEPT ![p] = ino]
                 /\ UNCHANGED <<stats, permits, doneQ, completed_urls>>
       IN CASE beh[u] = "down" -> Fail("request")
            [] beh[u] \in {"e404", "e403", "e500"} -> Fail(beh[u])
            [] beh[u] = "openerr" -> Fail("oserror")
            [] ~RangeSatisfiable(u, rec.range) -> Fail("e416")
            [] beh[u] = "flaky" -> Fail("request") \/ Ok
            [] OTHER -> Ok
    /\ UNCHANGED <<direct, now, domain_cooldown, caller, released>>
    /\ UNCHANGED <<cfg, batch, beh, state_writable, finalIno, stateFile, rerun, phase,
                   tasks, completed_tasks, results, prev>>

\* Lines 691-695: the file mode of the next attempt after the stream broke.
ModeAfterBreakOff(mode) == mode

ModeAfterBreak(mode) == "ab"

\* One turn of `async for chunk in response.aiter_bytes(...)`: a chunk is
\* written (lines 677-689), the stream breaks (lines 691-695, then the except
\* clauses), or it ends and the partial file is renamed (lines 697-723).
Chunk(j) ==
    /\ phase = "running"
    /\ j \in TaskIds
    /\ job[j].pc = "stream"
    /\ LET u == job[j].url
           p == PathOf(u)
           rec == job[j]
           Write == /\ rec.resp # <<>>
                    /\ inodes' = [inodes EXCEPT ![p][rec.fd] =
                                     IF rec.mode = "ab" THEN Append(@, Head(rec.resp))
                                     ELSE WriteAt(@, rec.pos, Head(rec.resp))]
                    /\ job' = [job EXCEPT ![j] = [rec EXCEPT !.resp = Tail(@), !.pos = @ + 1,
                                                     !.downloaded_bytes = @ + ChunkSize,
                                                     !.written = @ + ChunkSize]]
                    /\ stats' = [stats EXCEPT !.total_bytes = @ + ChunkSize]
                    /\ UNCHANGED <<tempIno, finalIno, completed_urls, stateFile, permits, doneQ>>
           Break == /\ beh[u] = "flaky"
                    /\ OnError(j, [rec EXCEPT !.mode = ModeAfterBreak(@)], "request")
                    /\ UNCHANGED <<inodes, finalIno, stateFile>>
           End == /\ rec.resp = <<>>
                  /\ IF ~RenameFails(u)
                     THEN /\ finalIno' = [finalIno EXCEPT ![p] = tempIno[p]]
                          /\ tempIno' = [tempIno EXCEPT ![p] = NoIno]
                          /\ inodes' = Renamed(p, j)
                          /\ Return(j, rec, Ret(TRUE, "final", rec.downloaded_bytes), "success")
                          /\ stats' = Bump(stats, "successful")
                          /\ completed_urls' = completed_urls \cup {u}
                          /\ stateFile' \in SaveState(completed_urls', stats')
                     ELSE \* lines 700-710: rename and copy2 both fail
                          /\ Return(j, rec, Ret(TRUE, "temp", rec.downloaded_bytes), "uncounted")
                          /\ UNCHANGED <<inodes, finalIno, tempIno, stats, completed_urls, stateFile>>
       IN Write \/ Break \/ End
    /\ UNCHANGED <<direct, now, domain_cooldown, caller, released>>
    /\ UNCHANGED <<cfg, batch, beh, state_writable, rerun, phase, tasks, completed_tasks, results, prev>>

\* The backoff sleep of lines 749-755 / 771-777 is over: next turn of the loop.
Backoff(j) ==
    /\ phase = "running"
    /\ j \in TaskIds
    /\ job[j].pc = "backoff"
    /\ job' = [job EXCEPT ![j] = IssueGet(job[j])]
    /\ UNCHANGED <<direct, now, domain_cooldown, caller, released>>
    /\ UNCHANGED <<cfg, batch, beh, state_writable, inodes, tempIno, finalIno, stateFile, rerun, phase, stats,
                   completed_urls, tasks, permits, doneQ, completed_tasks, results, prev>>

\* ------------------------------------------- download_batch: aggregation
\* Lines 916-918: `if success: results[url] = file_path`.
RecordResultAlways(res, u, r) ==
    [res EXCEPT ![u] = IF r.success THEN r.kind ELSE "failed"]

RecordResult(res, u, r) == IF r.success THEN [res EXCEPT ![u] = r.kind] ELSE res

\* One turn of `for future in asyncio.as_completed(tasks)`, lines 907-937; the
\* last turn runs on to the final save and the return, lines 949-959.
Collect ==
    /\ phase = "running"
    /\ doneQ # <<>>
    /\ LET j == Head(doneQ)
           n == completed_tasks + 1
       IN /\ completed_tasks' = n
          /\ doneQ' = Tail(doneQ)
          /\ job' = [job EXCEPT ![j].pc = "collected"]
          /\ results' = RecordResult(results, job[j].url, job[j].ret)
          /\ IF n = Len(tasks)
             THEN /\ phase' = IF state_writable \/ SaveFailureCaught THEN "returned"
                              ELSE "crashed"
                  /\ stateFile' \in SaveState(completed_urls, stats)
             ELSE /\ phase' = "running"
                  /\ stateFile' \in IF n % SaveEvery = 0 THEN SaveState(completed_urls, stats)
                                    ELSE {stateFile}
    /\ UNCHANGED <<direct, now, domain_cooldown, caller, released>>
    /\ UNCHANGED <<cfg, batch, beh, state_writable, inodes, tempIno, finalIno, rerun, stats, completed_urls,
                   tasks, permits, prev>>

\* The process is interrupted (Ctrl-C, task cancellation) while download_batch
\* awaits its jobs at line 909.  asyncio.CancelledError is a BaseException: the
\* `except Exception` clauses of lines 932 and 938 let it pass, the finally
\* clause of lines 941-947 only closes the progress bars, and lines 949-959
\* (with the final _save_state) are not reached.  asyncio.run cancels the
\* download tasks at their current await, which closes their files, and
\* __main__ exits with status 130 (lines 1244-1246).
Interrupt ==
    /\ phase = "running"
    /\ phase' = "interrupted"
    /\ job' = [j \in DOMAIN job |->
                  IF job[j].pc \in {"done", "collected"} THEN job[j]
                  ELSE [job[j] EXCEPT !.pc = "cancelled", !.fd = NoIno, !.resp = <<>>]]
    /\ UNCHANGED <<direct, now, domain_cooldown, caller, released>>
    /\ UNCHANGED <<cfg, batch, beh, state_writable, inodes, tempIno, finalIno, stateFile, rerun, stats,
                   completed_urls, tasks, permits, doneQ, completed_tasks, results, prev>>

\* main and the __main__ block, lines 1201-1250: main returns 0 once
\* download_batch has returned (line 1233), whatever the jobs did; a
\* KeyboardInterrupt ends the process with 130 (lines 1244-1246).
MainExitCode(ph) == IF ph = "interrupted" THEN 130 ELSE 0

\* The same command is run again over the same output directory: __init__.
Outcomes(u) == {job[j].outcome : j \in {i \in TaskIds : job[i].url = u}}

NewProcess ==
    /\ phase = "returned"
    /\ ~rerun
    /\ rerun' = TRUE
    /\ phase' = "constructed"
    /\ prev' = [u \in Inputs |-> Outcomes(u)]
    /\ stats' = ZeroStats
    /\ completed_urls' = LoadState(cfg, stateFile)
    /\ tasks' = <<>>
    /\ job' = <<>>
    /\ permits' = 0
    /\ doneQ' = <<>>
    /\ completed_tasks' = 0
    /\ results' = NoResults
    /\ UNCHANGED <<direct, now, domain_cooldown, caller, released>>
    /\ UNCHANGED <<cfg, batch, beh, state_writable, inodes, tempIno, finalIno, stateFile>>

Next ==
    \/ StartBatch
    \/ \E j \in Jobs : Acquire(j)
    \/ \E j \in Jobs : Throttle(j)
    \/ \E j \in Jobs : Probe(j)
    \/ \E j \in Jobs : Connect(j)
    \/ \E j \in Jobs : Chunk(j)
    \/ \E j \in Jobs : Backoff(j)
    \/ NothingToDownload
    \/ DirectCall
    \/ Collect
    \/ Interrupt
    \/ NewProcess

SpecUnit == InitUnit /\ [][Next]_vars

SpecBatch == InitBatch /\ [][Next]_vars

\* Construction with continue_from_state over a directory whose state file is
\* missing or was not written by _save_state (lines 143-145).
InitLoad ==
    /\ cfg \in {c \in UnitConfigs : c.continue_from_state /\ ~c.random_delay}
    /\ batch \in {b \in Batches : Len(b) = 1}
    /\ beh \in {b \in [URLs -> Behaviours] : \A u \in URLs : u # batch[1] => b[u] = "ok"}
    /\ caller = <<>>
    /\ FreshDownloads
    /\ stateFile \in {NoStateFile} \cup {ForeignStateFile(k) : k \in ForeignKinds}
    /\ completed_urls = LoadState(cfg, stateFile)
    /\ state_writable = TRUE

SpecLoad == InitLoad /\ [][Next]_vars

\* A batch on a file system that refuses every write of the state file.
InitSave ==
    /\ cfg \in Configs
    /\ batch \in {b \in Batches : Len(b) > 1}
    /\ beh \in [URLs -> BatchBehaviours]
    /\ caller = <<>>
    /\ FreshDownloads
    /\ stateFile = NoStateFile
    /\ completed_urls = {}
    /\ state_writable = FALSE

SpecSave == InitSave /\ [][Next]_vars

\* One URL fetched with the default chunk_size of 1 MiB (line 56).
DefaultChunkSize == 1048576

InitPromote ==
    /\ cfg \in {[c EXCEPT !.chunk_size = DefaultChunkSize] :
                    c \in {d \in UnitConfigs : ~d.random_delay}}
    /\ batch \in {b \in Batches : Len(b) = 1}
    /\ beh \in {b \in [URLs -> Behaviours] : \A u \in URLs : u # batch[1] => b[u] = "ok"}
    /\ caller = <<>>
    /\ Fresh

SpecPromote == InitPromote /\ [][Next]_vars

\* One call of download_batch that nothing interrupts.  The event loop runs a
\* coroutine that is ready, and every request and every sleep returns: a step
\* that is possible is eventually taken.
LiveBehaviours == {"ok", "flaky", "e404"}

InitLive ==
    /\ cfg \in {c \in Configs : ~c.overwrite /\ ~c.continue_from_state}
    /\ batch \in Batches
    /\ beh \in [URLs -> LiveBehaviours]
    /\ caller = <<>>
    /\ Fresh

NextLive ==
    \/ StartBatch
    \/ \E j \in Jobs : Acquire(j)
    \/ \E j \in Jobs : Throttle(j)
    \/ \E j \in Jobs : Probe(j)
    \/ \E j \in Jobs : Connect(j)
    \/ \E j \in Jobs : Chunk(j)
    \/ \E j \in Jobs : Backoff(j)
    \/ NothingToDownload
    \/ Collect

SpecLive == InitLive /\ [][NextLive]_vars /\ WF_vars(NextLive)

\* ------------------------------------- download_file: the origin throttle
\* SpecUnit and SpecBatch leave time out: a sleep is over when the coroutine
\* takes its next step.  The actions below follow the download_file calls of
\* one batch through _check_domain_cooldown and through the attempts that an
\* origin rejects, with the clock, and leave the files out.
ThrottleConfigs ==
    {c \in [max_workers : {MaxCallers}, max_retries : {0, ManyRetries},
            resume : {TRUE}, overwrite : {FALSE}, continue_from_state : {FALSE},
            random_delay : BOOLEAN, min_delay : {DefaultMinDelay, LongDelay},
            max_delay : {DefaultMaxDelay, LongDelay}, chunk_size : {ChunkBytes}] :
        /\ c.min_delay <= c.max_delay
        /\ ~c.random_delay => c.min_delay = DefaultMinDelay /\ c.max_delay = DefaultMaxDelay}

\* The calls of a batch: up to most of them, each to one of the origins.  The
\* calls are interchangeable, so they are listed by origin.
CallersUpTo(most) ==
    UNION {{f \in [1..n -> {NewCaller(o) : o \in Origins}] :
                \A i \in 1..(n - 1) : f[i].origin <= f[i + 1].origin} :
               n \in 1..most}

\* Up to most calls (a single call when max_retries is ManyRetries).
CallerSets(c, most) == CallersUpTo(IF c.max_retries = ManyRetries THEN 1 ELSE most)

InitThrottle ==
    /\ cfg \in ThrottleConfigs
    /\ batch = <<>>
    /\ beh = [u \in URLs |-> "ok"]
    /\ caller \in CallerSets(cfg, MaxCallers)
    /\ Fresh

\* The same with fewer calls.
InitPenalty ==
    /\ cfg \in ThrottleConfigs
    /\ batch = <<>>
    /\ beh = [u \in URLs |-> "ok"]
    /\ caller \in CallerSets(cfg, MaxPenalized)
    /\ Fresh

\* Line 453: the entry is read again after the sleep, in the same step that
\* stores the new one; the value read before the sleep is not used.
EntryReadStale(rec, e) == IF rec.waited THEN [e EXCEPT !.cooldown = rec.seen] ELSE e

EntryRead(rec, e) == e

\* Lines 447-459: draw the base, compute the cooldown and store the entry;
\* the call goes on to its first attempt.
UpdateEntry(c, rec, base) ==
    LET o == rec.origin
        e == domain_cooldown[o]
        cooldown == NextCooldown(EntryRead(rec, e), base)
    IN /\ domain_cooldown' =
              [domain_cooldown EXCEPT ![o] =
                   [known |-> TRUE, last_access |-> now, cooldown |-> cooldown,
                    penalized |-> FALSE]]
       /\ caller' = [caller EXCEPT ![c] = [rec EXCEPT !.pc = "request", !.attempts = 1]]
       /\ released' =
              [released EXCEPT ![o] =
                   Append(@, [caller |-> c, at |-> now, seen |-> rec.seen,
                              waited |-> rec.waited,
                              prev |-> IF e.known THEN e.cooldown ELSE NoCooldown,
                              base |-> base, stored |-> cooldown])]

\* Lines 520-522 and 433-445: the call reaches _check_domain_cooldown; it
\* sleeps for the rest of the cooldown, or goes on to lines 447-459 at once.
EnterCooldown(c) ==
    /\ c \in DOMAIN caller
    /\ caller[c].pc = "idle"
    /\ LET e == domain_cooldown[caller[c].origin]
           elapsed == now - e.last_access
           rec == [caller[c] EXCEPT !.seen = IF e.known THEN e.cooldown ELSE NoCooldown]
       IN IF e.known /\ elapsed < e.cooldown
          THEN /\ caller' = [caller EXCEPT ![c] =
                                [rec EXCEPT !.pc = "cooling", !.waited = TRUE,
                                            !.wake = now + (e.cooldown - elapsed)]]
               /\ UNCHANGED <<domain_cooldown, released>>
          ELSE \E base \in BaseCooldowns : UpdateEntry(c, rec, base)
    /\ UNCHANGED <<now, direct>>
    /\ UNCHANGED <<cfg, batch, beh, state_writable, inodes, tempIno, finalIno, stateFile, rerun, phase, stats,
                   completed_urls, tasks, job, permits, doneQ, completed_tasks, results, prev>>

\* asyncio.sleep(wait_time) of line 445 is over: lines 447-459.
WakeCooldown(c) ==
    /\ c \in DOMAIN caller
    /\ caller[c].pc = "cooling"
    /\ now >= caller[c].wake
    /\ \E base \in BaseCooldowns : UpdateEntry(c, caller[c], base)
    /\ UNCHANGED <<now, direct>>
    /\ UNCHANGED <<cfg, batch, beh, state_writable, inodes, tempIno, finalIno, stateFile, rerun, phase, stats,
                   completed_urls, tasks, job, permits, doneQ, completed_tasks, results, prev>>

\* Lines 749-755: the backoff sleep, 2 ** retry_count + uniform(0, 2)
\* seconds, cut to SleepHorizon (longer than any cooldown).
RECURSIVE Pow2(_)
Pow2(n) == IF n = 0 THEN 1 ELSE Min(2 * Pow2(n - 1), SleepHorizon)

BackoffDelays(retry_count) ==
    {Min(10 * Pow2(retry_count) + u, SleepHorizon) : u \in Uniform(0, 20)}

\* Lines 725-748: an attempt ends with HTTP 403 or 429; the origin's cooldown
\* is replaced, then the call gives up or starts its backoff sleep.
Rejected(c) ==
    /\ c \in DOMAIN caller
    /\ caller[c].pc = "request"
    /\ LET r == caller[c].retry_count + 1
           o == caller[c].origin
       IN /\ domain_cooldown' =
                 [domain_cooldown EXCEPT ![o] =
                      [known |-> TRUE, last_access |-> now, cooldown |-> Penalty(r),
                       penalized |-> TRUE]]
          /\ \E delay \in BackoffDelays(r) :
                caller' = [caller EXCEPT ![c] =
                              [@ EXCEPT !.retry_count = r,
                                        !.penalty = domain_cooldown'[o].cooldown,
                                        !.pc = IF RetriesExhausted(r) THEN "failed"
                                               ELSE "backoff",
                                        !.wake = IF RetriesExhausted(r) THEN @
                                                 ELSE now + delay]]
    /\ UNCHANGED <<now, released, direct>>
    /\ UNCHANGED <<cfg, batch, beh, state_writable, inodes, tempIno, finalIno, stateFile, rerun, phase, stats,
                   completed_urls, tasks, job, permits, doneQ, completed_tasks, results, prev>>

\* Lines 749-755 and 630-641: the backoff sleep is over, the next attempt is
\* issued.
Retry(c) ==
    /\ c \in DOMAIN caller
    /\ caller[c].pc = "backoff"
    /\ now >= caller[c].wake
    /\ caller' = [caller EXCEPT ![c] = [@ EXCEPT !.pc = "request", !.attempts = @ + 1]]
    /\ UNCHANGED <<now, domain_cooldown, released, direct>>
    /\ UNCHANGED <<cfg, batch, beh, state_writable, inodes, tempIno, finalIno, stateFile, rerun, phase, stats,
                   completed_urls, tasks, job, permits, doneQ, completed_tasks, results, prev>>

\* Lines 641-723: an attempt is answered and the call returns.
Served(c) ==
    /\ c \in DOMAIN caller
    /\ caller[c].pc = "request"
    /\ caller' = [caller EXCEPT ![c].pc = "done"]
    /\ UNCHANGED <<now, domain_cooldown, released, direct>>
    /\ UNCHANGED <<cfg, batch, beh, state_writable, inodes, tempIno, finalIno, stateFile, rerun, phase, stats,
                   completed_urls, tasks, job, permits, doneQ, completed_tasks, results, prev>>

\* Time passes: by a tenth of a second, or up to the wake-up time of a sleeper.
WakeTimes ==
    {caller[c].wake : c \in {i \in DOMAIN caller : caller[i].pc \in {"cooling", "backoff"}}}

Tick ==
    /\ \E t \in {w \in WakeTimes : w > now} \cup {w \in {now + 1} : w <= MaxTime} : now' = t
    /\ UNCHANGED <<domain_cooldown, caller, released, direct>>
    /\ UNCHANGED <<cfg, batch, beh, state_writable, inodes, tempIno, finalIno, stateFile, rerun, phase, stats,
                   completed_urls, tasks, job, permits, doneQ, completed_tasks, results, prev>>

NextThrottle ==
    \/ \E c \in 1..MaxCallers : EnterCooldown(c)
    \/ \E c \in 1..MaxCallers : WakeCooldown(c)
    \/ \E c \in 1..MaxCallers : Rejected(c)
    \/ \E c \in 1..MaxCallers : Retry(c)
    \/ \E c \in 1..MaxCallers : Served(c)
    \/ Tick

SpecThrottle == InitThrottle /\ [][NextThrottle]_vars

SpecPenalty == InitPenalty /\ [][NextThrottle]_vars

\* ============================================================= properties
Done(j) == job[j].pc \in {"done", "collected"}

FinalContent(p) == inodes[p][finalIno[p]]

\* The job found a partial file holding the first M bytes of its T-byte
\* resource, 0 < M < T, and resume is enabled.
ResumedPartial(j) ==
    /\ cfg.resume
    /\ job[j].resumed_prefix
    /\ job[j].resumed_from > 0
    /\ job[j].resumed_from < ResourceBytes(job[j].url)

\* C1: a job that resumes an M-byte partial file of a T-byte resource sends its
\* GET with a Range starting at byte M and, when it succeeds, leaves a final
\* file equal to the resource (exactly T bytes).
C1_ResumeCorrectness ==
    \A j \in DOMAIN job :
        ResumedPartial(j) /\ job[j].attempts > 0 =>
            /\ job[j].attempts = 1 => job[j].range = job[j].resumed_from
            /\ job[j].outcome = "success" =>
                   FinalContent(PathOf(job[j].url)) = Resource(job[j].url)

\* C2: in a fresh output directory, whatever mid-stream failures its attempts
\* meet, a job that succeeds leaves a final file holding each byte of the
\* resource exactly once.
C2_RetriesResume ==
    \A j \in DOMAIN job :
        ~rerun /\ job[j].outcome = "success" =>
            FinalContent(PathOf(job[j].url)) = Resource(job[j].url)

\* The origin of u fails every request with a connection error or a 5xx status.
AlwaysTransient(u) == beh[u] \in {"down", "e500"}

\* C3: a job whose every attempt fails with a transient error (connection
\* error, transient status) makes exactly max_retries + 1 attempts, then
\* returns failure, and failed has been incremented exactly once for it.
C3_RetryBound ==
    \A j \in DOMAIN job :
        AlwaysTransient(job[j].url) =>
            /\ job[j].attempts <= cfg.max_retries + 1
            /\ job[j].pc = "backoff" => job[j].attempts <= cfg.max_retries
            /\ Done(j) =>
                  /\ job[j].attempts = cfg.max_retries + 1
                  /\ job[j].retry_count = cfg.max_retries + 1
                  /\ ~job[j].ret.success
                  /\ job[j].failedInc = 1
                  /\ stats.failed = 1

C3_Witness ==
    \E j \in DOMAIN job :
        /\ AlwaysTransient(job[j].url)
        /\ Done(j)
        /\ cfg.max_retries = MaxRetriesCfg
        /\ job[j].attempts = MaxRetriesCfg + 1
        /\ stats.failed = 1

\* C9: a job that resumes an M-byte partial file of a T-byte resource and
\* succeeds returns T - M as its byte count, and the final file has T bytes.
C9_BytesThisRun ==
    \A j \in DOMAIN job :
        ResumedPartial(j) /\ job[j].outcome = "success" =>
            /\ job[j].ret.bytes = ResourceBytes(job[j].url) - job[j].resumed_from
            /\ FileBytes(PathOf(job[j].url), finalIno[PathOf(job[j].url)])
                   = ResourceBytes(job[j].url)

\* The tasks inside download_file, between taking and releasing the semaphore.
Inside == {j \in DOMAIN job : InFile(j)}

\* C4: at most max_workers jobs are inside download_file at any time, so at
\* most max_workers are streaming.
C4_ConcurrencyBound ==
    /\ Cardinality(Inside) <= cfg.max_workers
    /\ permits >= 0
    /\ phase = "running" => permits + Cardinality(Inside) = cfg.max_workers

C4_Witness ==
    /\ Len(tasks) > cfg.max_workers
    /\ Cardinality(Inside) = cfg.max_workers
    /\ \E j \in DOMAIN job : job[j].pc = "queued"
    /\ \E j \in DOMAIN job : job[j].pc = "stream"

\* C5: when continuing from state, no probe and no GET is issued for a URL
\* that is in completed_urls at that moment.
C5_NoRequestForCompleted ==
    cfg.continue_from_state => \A j \in DOMAIN job : ~job[j].reqCompleted

\* Occurrences of u in the batch, and its jobs of this run that were skipped.
Occurrences(u) == {i \in DOMAIN batch : batch[i] = u}

Skipped(u) == {j \in DOMAIN job : job[j].url = u /\ job[j].outcome = "skip"}

PrevSucceeded(u) == "success" \in prev[u]

\* The second run of the same batch has returned, resume on, overwrite off.
SecondRunOver == rerun /\ phase = "returned" /\ cfg.resume /\ ~cfg.overwrite

\* No job of u has transferred or reported a byte in this run.
ZeroBytes(u) ==
    \A j \in DOMAIN job :
        job[j].url = u =>
            job[j].attempts = 0 /\ job[j].downloaded_bytes = 0 /\ job[j].ret.bytes = 0

AllSucceed ==
    /\ ~rerun
    /\ \A i \in DOMAIN batch : ValidateUrl(batch[i])
    /\ \A i, k \in DOMAIN batch : i # k => batch[i] # batch[k]
    /\ \A i \in DOMAIN batch : beh[batch[i]] = "ok"

BatchUrls == {batch[i] : i \in DOMAIN batch}

\* C8: a first run over k distinct URLs that all succeed returns k results,
\* successful = k, failed = 0, and the state file lists exactly those URLs.
C8_AllSuccess ==
    AllSucceed /\ phase = "returned" =>
        /\ {u \in URLs : results[u] # "none"} = BatchUrls
        /\ \A u \in BatchUrls : results[u] = "final"
        /\ stats.successful = Len(batch)
        /\ stats.failed = 0
        /\ stateFile.exists
        /\ stateFile.completed_urls = BatchUrls

C8_Witness ==
    /\ AllSucceed
    /\ phase = "returned"
    /\ Len(batch) = MaxBatch
    /\ stats.successful = MaxBatch
    /\ stateFile.completed_urls = BatchUrls

\* C10 as stated: a job whose URL answers 404 fails after exactly one request.
C10_OneRequestAsStated ==
    \A j \in DOMAIN job :
        beh[job[j].url] = "e404" /\ Done(j) => job[j].attempts = 1 /\ job[j].retry_count <= 1

\* C10 amended: a job whose URL answers 404 is retried like any other error:
\* it fails after exactly max_retries + 1 requests, counted once in failed,
\* and the jobs of the other URLs succeed independently of it.
C10_Permanent4xx ==
    /\ \A j \in DOMAIN job :
          beh[job[j].url] = "e404" /\ Done(j) =>
              /\ job[j].attempts = cfg.max_retries + 1
              /\ job[j].ret = Ret(FALSE, "final", 0)
              /\ job[j].failedInc = 1
    /\ phase = "returned" /\ (\E j \in DOMAIN job : beh[job[j].url] = "e404") =>
          \A j \in DOMAIN job : beh[job[j].url] = "ok" => job[j].ret.success

C10_Witness ==
    /\ phase = "returned"
    /\ cfg.max_retries > 0
    /\ \E j \in DOMAIN job :
          beh[job[j].url] = "e404" /\ job[j].attempts = cfg.max_retries + 1
    /\ \E j \in DOMAIN job : beh[job[j].url] = "ok" /\ job[j].outcome = "success"

\* What a reader of the state file finds as the list of completed URLs.
Persisted == IF stateFile.exists THEN stateFile.completed_urls ELSE {}

\* C11: when a running batch is interrupted, a state save is performed after
\* the interruption and before the process terminates: at termination the
\* state file holds the counters and completed URLs the process had in memory.
C11_FinalSaveOnInterrupt ==
    phase = "interrupted" => stateFile = SavedState(completed_urls, stats)

\* The URLs completed in memory that the state file does not list.
Unsaved == completed_urls \ Persisted

Writers(p) == {j \in DOMAIN job : PathOf(job[j].url) = p /\ job[j].pc = "stream"}

\* C13: at no instant do two in-flight download_file attempts write to the
\* same .part path, also when the batch contains the same URL twice.
C13_ExclusivePartFile ==
    \A p \in URLs : Cardinality(Writers(p)) <= 1

\* The job holds a size an origin has reported (not the initial 0 and not the
\* placeholder of an unanswered probe).
SizeLearned(j) == job[j].file_size \notin {0, DefaultSize}

\* C18: within one download_file call, once file_size has been learned from the
\* probe, no later assignment (from a streamed response's Content-Length, on
\* any attempt) makes it smaller.
C18_MonotonicSize ==
    [][\A j \in DOMAIN job :
          SizeLearned(j) /\ j \in DOMAIN job' => job'[j].file_size >= job[j].file_size]_vars

\* C20: a job whose rename of the partial file fails, the copy fallback
\* failing too, is reported as a failure (success = false, counted in failed,
\* absent from the result map); a job reported successful after a download
\* has its file at the final path.
C20_RenameFailureIsFailure ==
    \A j \in DOMAIN job :
        Done(j) =>
            /\ job[j].outcome = "uncounted" =>
                   /\ ~job[j].ret.success
                   /\ job[j].failedInc = 1
                   /\ job[j].pc = "collected" => results[job[j].url] = "none"
            /\ job[j].ret.success /\ job[j].attempts > 0 =>
                   Exists(finalIno[PathOf(job[j].url)])

\* What download_batch has counted as failed beyond the jobs it ran.
InvalidInBatch == {i \in DOMAIN batch : ~ValidateUrl(batch[i])}

FailedJobs == {j \in DOMAIN job : job[j].outcome = "failure"}

\* C19: a URL with a scheme other than http/https or with an empty host ends
\* as a failure recorded in the failed count, without any request, both when
\* given to download_file directly and when it is part of a download_batch.
C19_InvalidInput ==
    /\ phase = "direct" => direct = Ret(FALSE, "empty", 0) /\ stats.failed = 1
    /\ \A j \in DOMAIN job : ValidateUrl(job[j].url)
    /\ phase = "returned" =>
          stats.failed = Cardinality(FailedJobs) + Cardinality(InvalidInBatch)

\* The k-th update of line 459 for origin o.
Release(o, k) == released[o][k]

\* C14: two calls that pass _check_domain_cooldown for one origin one after
\* the other are separated by at least the cooldown that was current for the
\* origin when the second one began to wait.
C14_MinimumInterval ==
    \A o \in Origins :
        \A k \in 2..Len(released[o]) :
            Release(o, k).at - Release(o, k - 1).at >= Release(o, k).seen

\* C15: over consecutive _check_domain_cooldown calls for one origin, each
\* arriving within the previous cooldown window, the cooldown values stored
\* never decrease, and no stored value exceeds the cap of 30 s.
C15_ThrottleGrowth ==
    \A o \in Origins :
        \A k \in 1..Len(released[o]) :
            /\ Release(o, k).stored <= CooldownCap
            /\ k > 1 /\ Release(o, k).waited =>
                   Release(o, k).stored >= Release(o, k - 1).stored

\* C16: for an origin that already has an entry, the new cooldown is
\* min(cap, max(base, previous_cooldown * 1.2)), base being the value freshly
\* drawn in that call.
C16_Recomputation ==
    \A o \in Origins :
        \A k \in 1..Len(released[o]) :
            Release(o, k).prev # NoCooldown =>
                Release(o, k).stored =
                    Min(CooldownCap, Max(Release(o, k).base, Grow(Release(o, k).prev)))

\* The cooldowns that lines 452-455 have stored by growing an earlier one.
Grown ==
    UNION {{Release(o, k).stored :
                k \in {i \in 1..Len(released[o]) : Release(o, i).prev # NoCooldown}} :
           o \in Origins}

\* C17: an attempt that ends with HTTP 403 or 429 sets the origin's cooldown to
\* min(30 + retry_count * 10, 300) seconds with retry_count >= 1, which is
\* more than 30 s and more than any cooldown the adaptive growth has stored.
C17_PenalizeValue ==
    \A c \in DOMAIN caller :
        caller[c].penalty # NoCooldown =>
            /\ caller[c].retry_count >= 1
            /\ caller[c].penalty = Min(30 * 10 + caller[c].retry_count * 10 * 10, 300 * 10)
            /\ caller[c].penalty > CooldownCap
            /\ \A g \in Grown : g < caller[c].penalty
            /\ caller[c].pc = "failed" => caller[c].retry_count = cfg.max_retries + 1

C17_Witness ==
    \E c \in DOMAIN caller :
        /\ caller[c].retry_count = ManyRetries
        /\ caller[c].penalty = PenaltyCap
        /\ domain_cooldown[caller[c].origin].cooldown = PenaltyCap

\* The step in which job j gives up after its last retry.
GivesUp(j) ==
    /\ j \in DOMAIN job /\ j \in DOMAIN job'
    /\ job[j].pc \in {"connect", "stream"}
    /\ job'[j].outcome = "failure"

\* C21: when a job ends in failure after exhausting its retries, the .part
\* file left by its last attempt is neither deleted, truncated nor renamed,
\* and the final path is unchanged.
C21_FailureKeepsPartial ==
    [][\A j \in Jobs :
          GivesUp(j) => inodes' = inodes /\ tempIno' = tempIno /\ finalIno' = finalIno]_vars

C21_Witness ==
    \E j \in DOMAIN job :
        /\ job[j].outcome = "failure"
        /\ job[j].retry_count = cfg.max_retries + 1
        /\ cfg.max_retries > 0
        /\ Exists(tempIno[PathOf(job[j].url)])
        /\ FileBytes(PathOf(job[j].url), tempIno[PathOf(job[j].url)]) > 0
        /\ ~Exists(finalIno[PathOf(job[j].url)])

\* The step in which job j reaches line 578 with its final path present and
\* overwrite disabled.
MeetsExisting(j) ==
    /\ j \in DOMAIN job /\ j \in DOMAIN job'
    /\ job[j].pc = "throttle"
    /\ job'[j].pc \notin {"throttle", "cancelled"}
    /\ Exists(finalIno[PathOf(job[j].url)])
    /\ ~cfg.overwrite

\* C22: when the final path exists and overwrite is disabled, download_file
\* returns (true, final path, 0), adds exactly 1 to skipped, leaves the other
\* counters alone, issues no GET and leaves the final file as it was.
C22_SkipExisting ==
    [][\A j \in Jobs :
          MeetsExisting(j) =>
              /\ job'[j].pc = "done"
              /\ job'[j].ret = Ret(TRUE, "final", 0)
              /\ stats' = [stats EXCEPT !.skipped = @ + 1]
              /\ job'[j].attempts = 0
              /\ inodes' = inodes /\ finalIno' = finalIno /\ tempIno' = tempIno]_vars

C22_Witness ==
    /\ rerun
    /\ ~cfg.continue_from_state
    /\ ~cfg.overwrite
    /\ stats.skipped = 1
    /\ \E j \in DOMAIN job :
          /\ job[j].outcome = "skip"
          /\ job[j].attempts = 0
          /\ FinalContent(PathOf(job[j].url)) = Resource(job[j].url)

\* C28: with random_delay on, every network request of a job (size probe,
\* first GET, each retry GET) is preceded by a jitter sleep of its own.
C28_JitterBeforeEveryRequest ==
    cfg.random_delay =>
        \A j \in DOMAIN job : job[j].jitters >= job[j].probes + job[j].attempts

\* The jobs of the batch that ended with the given outcomes.
Ended(kinds) == {j \in DOMAIN job : job[j].outcome \in kinds}

RECURSIVE SumWritten(_)
SumWritten(js) ==
    IF js = {} THEN 0
    ELSE LET j == CHOOSE x \in js : TRUE IN job[j].written + SumWritten(js \ {j})

\* C30: at batch end total_bytes is the sum of the chunks written by the jobs
\* of the batch, and successful, failed and skipped each count the jobs that
\* ended with that outcome.
C30_CountersMatchOutcomes ==
    phase = "returned" /\ ~rerun =>
        /\ stats.total_bytes = SumWritten(DOMAIN job)
        /\ stats.successful = Cardinality({j \in DOMAIN job :
                                  job[j].ret.success /\ job[j].outcome # "skip"})
        /\ stats.failed = Cardinality({j \in DOMAIN job : ~job[j].ret.success})
        /\ stats.skipped = Cardinality(Ended({"skip"}))

\* The URLs handed to download_batch.
Submitted == {batch[i] : i \in DOMAIN batch}

\* C25: the exit status of main is non-zero exactly when some job of the
\* batch failed (failed > 0, or an input URL without a successful result).
C25_ExitStatus ==
    phase = "returned" =>
        (MainExitCode(phase) # 0 <=>
            \/ stats.failed > 0
            \/ \E u \in Submitted : u \notin URLs \/ results[u] = "none")

\* The jobs run for URL u that returned success (a download or a skip).
Succeeded(u) == {j \in DOMAIN job : job[j].url = u /\ job[j].ret.success}

\* C26 as stated: the map returned by download_batch has an entry for every
\* URL submitted, a local path or a failure outcome.
C26_CoverageAsStated ==
    phase = "returned" => \A u \in Submitted : u \in URLs /\ results[u] # "none"

\* C26, amended: the map holds exactly the URLs for which a job of this batch
\* returned success, each mapped to the path such a job returned; failed,
\* invalid and already-completed URLs have no entry.
C26_Coverage ==
    phase = "returned" =>
        \A u \in URLs :
            /\ results[u] # "none" <=> Succeeded(u) # {}
            /\ results[u] # "none" => results[u] \in {job[j].ret.kind : j \in Succeeded(u)}

C26_Witness ==
    /\ phase = "returned"
    /\ \E u, v \in Submitted \cap URLs :
          /\ results[u] = "final"
          /\ results[v] = "none"
          /\ \E j \in DOMAIN job : job[j].url = v /\ job[j].outcome = "failure"

\* C23: constructing the downloader in resume mode with a state file that is
\* missing, unreadable, not JSON or of the wrong shape leaves completed_urls
\* empty.
C23_LoadNeverFails ==
    phase = "constructed" /\ ~rerun /\ cfg.continue_from_state =>
        completed_urls = {}

\* What a first run over an empty directory makes of a batch of distinct
\* valid URLs: a URL whose origin answers is downloaded, any other fails.
DistinctValid ==
    /\ \A i \in DOMAIN batch : ValidateUrl(batch[i])
    /\ \A i, k \in DOMAIN batch : batch[i] = batch[k] => i = k

Answering == {u \in Submitted : beh[u] = "ok"}

RECURSIVE SumBytes(_)
SumBytes(us) ==
    IF us = {} THEN 0
    ELSE LET u == CHOOSE x \in us : TRUE IN ResourceBytes(u) + SumBytes(us \ {u})

ExpectedEnd ==
    /\ \A j \in DOMAIN job :
          job[j].outcome = IF job[j].url \in Answering THEN "success" ELSE "failure"
    /\ stats = [successful |-> Cardinality(Answering),
                failed |-> Cardinality(Submitted \ Answering),
                skipped |-> 0, total_bytes |-> SumBytes(Answering)]
    /\ results = [u \in URLs |-> IF u \in Answering THEN "final" ELSE "none"]

\* C24: when every write of the state file fails, download_batch still
\* returns, and each job's outcome, the counters and the result map are what
\* they are when the writes succeed.
C24_SaveFailureHarmless ==
    /\ phase # "crashed"
    /\ \A j \in DOMAIN job : ~job[j].raised
    /\ phase = "returned" /\ ~rerun /\ DistinctValid => ExpectedEnd

C24_Witness ==
    /\ ~state_writable
    /\ phase = "returned" /\ ~rerun /\ DistinctValid
    /\ Answering # {} /\ Answering # Submitted
    /\ stateFile.kind # "saved"
    /\ completed_urls # {}

\* The step in which an attempt of call c is rejected with 403 or 429.
RejectedStep(c) ==
    /\ c \in DOMAIN caller
    /\ caller[c].pc = "request"
    /\ caller'[c].retry_count = caller[c].retry_count + 1

\* C27: a call whose attempts are all rejected with 403 or 429 makes exactly
\* max_retries + 1 attempts before it fails, and each rejection escalates the
\* origin's entry in the step that ends the attempt, before the backoff sleep
\* begins; the end of the sleep leaves the entry alone.
C27_RejectionSharesLimit ==
    /\ [](\A c \in DOMAIN caller :
             /\ caller[c].attempts <= cfg.max_retries + 1
             /\ caller[c].pc = "failed" => caller[c].attempts = cfg.max_retries + 1
             /\ caller[c].pc = "backoff" => caller[c].retry_count <= cfg.max_retries)
    /\ [][\A c \in 1..MaxCallers :
             /\ RejectedStep(c) =>
                   /\ caller'[c].pc \in {"backoff", "failed"}
                   /\ domain_cooldown'[caller[c].origin] =
                          [known |-> TRUE, last_access |-> now, penalized |-> TRUE,
                           cooldown |-> Penalty(caller'[c].retry_count)]
             /\ (c \in DOMAIN caller /\ caller[c].pc = "backoff" /\ caller'[c].pc = "request")
                   => domain_cooldown' = domain_cooldown]_vars

C27_Witness ==
    \E c \in DOMAIN caller :
        /\ caller[c].pc = "failed"
        /\ cfg.max_retries = ManyRetries
        /\ caller[c].attempts = ManyRetries + 1
        /\ domain_cooldown[caller[c].origin].cooldown = PenaltyCap

\* min(... * 1.2, 30), n times over.
RECURSIVE GrownTimes(_, _)
GrownTimes(c, n) ==
    IF n = 0 THEN c ELSE Min(Grow(GrownTimes(c, n - 1)), CooldownCap)

\* No attempt at origin o has been rejected.
Unpenalized(o) ==
    \A c \in DOMAIN caller : caller[c].origin = o => caller[c].penalty = NoCooldown

\* C29: however the calls of _check_domain_cooldown for one origin interleave,
\* the cooldown stored after k of them is the first value grown k - 1 times
\* (capped): no call's update is overwritten by a value computed from a
\* stale read.
C29_NoLostUpdate ==
    \A o \in Origins :
        Unpenalized(o) =>
            /\ \A k \in 1..Len(released[o]) :
                  Release(o, k).stored = GrownTimes(Release(o, 1).stored, k - 1)
            /\ Len(released[o]) > 0 =>
                  domain_cooldown[o].cooldown = Release(o, Len(released[o])).stored

C29_Witness ==
    \E o \in Origins :
        /\ Unpenalized(o)
        /\ Len(released[o]) = 3
        /\ Release(o, 2).waited /\ Release(o, 3).waited
        /\ Release(o, 2).seen = Release(o, 3).seen
        /\ Release(o, 1).stored < Release(o, 2).stored
        /\ Release(o, 2).stored < Release(o, 3).stored

\* The step in which the size probe of job j returns.
ProbeReturns(j) ==
    /\ j \in DOMAIN job /\ j \in DOMAIN job'
    /\ job[j].pc = "probe"
    /\ job'[j].pc \notin {"probe", "cancelled"}

\* C31: whatever the size probe meets, the job goes on with a strictly
\* positive total size; the probe alone neither fails the job nor uses up a
\* retry, and after a failed probe (placeholder size) the first GET is issued.
C31_ProbeNonFatal ==
    [][\A j \in Jobs :
          ProbeReturns(j) =>
              /\ job'[j].file_size > 0
              /\ job'[j].retry_count = 0
              /\ job'[j].failedInc = 0 /\ job'[j].outcome # "failure"
              /\ stats'.failed = stats.failed
              /\ job'[j].pc = "connect" \/ job'[j].outcome = "success"
              /\ beh[job[j].url] \in {"down", "e404", "e403", "e500"} =>
                    job'[j].pc = "connect" /\ job'[j].attempts = 1]_vars

C31_Witness ==
    \E j \in DOMAIN job :
        /\ beh[job[j].url] \in {"down", "e500"}
        /\ job[j].pc = "connect"
        /\ job[j].file_size = DefaultSize
        /\ job[j].probes = 1 /\ job[j].attempts = 1 /\ job[j].retry_count = 0

\* Job j holds its partial file open.
Streaming(j) == j \in DOMAIN job /\ job[j].pc = "stream"

\* C33: for a job that owns its path alone, once an attempt has opened the
\* partial file and after every chunk write, downloaded_bytes is the length of
\* that file; it never decreases while the job runs, and an attempt that
\* opens the file truncating starts from 0.
C33_BytesTrackPartial ==
    /\ [](\A j \in DOMAIN job :
             Streaming(j) =>
                 job[j].downloaded_bytes = FileBytes(PathOf(job[j].url), job[j].fd))
    /\ [][\A j \in Jobs :
             (j \in DOMAIN job /\ j \in DOMAIN job') =>
                 /\ job'[j].downloaded_bytes >= job[j].downloaded_bytes
                 /\ (job[j].pc = "connect" /\ Streaming(j)' /\ job[j].mode = "wb")
                       => job'[j].downloaded_bytes = 0]_vars

C33_Witness ==
    \E j \in DOMAIN job :
        /\ Streaming(j)
        /\ job[j].retry_count > 0
        /\ job[j].mode = "ab"
        /\ job[j].resp = <<>>
        /\ job[j].downloaded_bytes > ResourceBytes(job[j].url)

\* C35: every download_file call that returns has added 1 to exactly one of
\* successful, failed and skipped, so after a batch without
\* continue_from_state the three add up to the number of jobs, and with
\* distinct URLs the result map has successful + skipped entries.
C35_OutcomeAccounting ==
    phase = "returned" /\ ~cfg.continue_from_state /\ tasks # <<>> =>
        /\ stats.successful + stats.failed + stats.skipped = Len(tasks)
        /\ DistinctValid =>
              Cardinality({u \in URLs : results[u] # "none"}) =
                  stats.successful + stats.skipped

\* URL u enters completed_urls in this step.
Added(u) == u \in completed_urls' /\ u \notin completed_urls

\* C36: a URL enters completed_urls only when it is loaded from the state
\* file, or when a job for it ends in success or skip with the final file
\* present at that moment; a job that ends in failure adds nothing.
C36_CompletedOnlyFinished ==
    [][/\ \A u \in URLs \cup {Character} :
             Added(u) =>
                 \/ /\ phase = "returned" /\ phase' = "constructed"
                    /\ u \in stateFile.completed_urls
                 \/ \E j \in DOMAIN job :
                       /\ job[j].url = u
                       /\ job[j].outcome = "none"
                       /\ job'[j].outcome \in {"success", "skip"}
                       /\ Exists(finalIno'[PathOf(u)])
       /\ \A j \in Jobs :
             (j \in DOMAIN job /\ j \in DOMAIN job'
                /\ job[j].outcome = "none" /\ job'[j].outcome \in {"failure", "uncounted"})
                 => completed_urls' = completed_urls]_vars

C36_Witness ==
    /\ phase = "returned"
    /\ \E u, v \in Submitted \cap URLs :
          /\ u \in completed_urls /\ Exists(finalIno[PathOf(u)])
          /\ v \notin completed_urls
          /\ \E j \in DOMAIN job : job[j].url = v /\ job[j].outcome = "failure"

\* C39: with continue_from_state and a state file written by _save_state,
\* no save of the run drops a URL that the file listed before: every save
\* writes a superset of the completed_urls the file held.
C39_PersistedMonotonic ==
    [][(cfg.continue_from_state /\ state_writable /\ stateFile.kind = "saved") =>
           /\ stateFile'.kind = "saved"
           /\ stateFile.completed_urls \subseteq stateFile'.completed_urls]_vars

C39_Witness ==
    /\ rerun /\ cfg.continue_from_state
    /\ phase = "returned"
    /\ stateFile.kind = "saved"
    /\ stateFile.completed_urls # {}
    /\ stateFile.stats.successful = 0 /\ stateFile.stats.skipped = 0

\* Job j ended by renaming the partial file it found, without a GET.
Promoted(j) == job[j].outcome = "success" /\ job[j].attempts = 0

\* C34: an existing partial file is renamed to the final path without
\* streaming only when it is at least as long as the resource; the placeholder
\* size of a failed probe and the 1024-byte floor never make a shorter file
\* count as complete.
C34_PromotionNeedsRealSize ==
    \A j \in DOMAIN job :
        Promoted(j) => job[j].resumed_from >= ResourceBytes(job[j].url)

\* C37: the cooldown stored for an origin never decreases, whether it is
\* replaced by _check_domain_cooldown or by a 403/429 penalty.
C37_CooldownNeverDecreases ==
    [][\A o \in Origins :
          domain_cooldown[o].known =>
              domain_cooldown'[o].cooldown >= domain_cooldown[o].cooldown]_vars

\* The step in which call c issues a request to its origin.
IssuesRequest(c) ==
    /\ c \in DOMAIN caller
    /\ caller[c].pc \in {"idle", "cooling", "backoff"}
    /\ caller'[c].pc = "request"

\* C38: once an origin is penalized at time t with cooldown c, no call issues
\* a request to it before t + c, the retries of the penalized call included.
C38_PenaltyHonoured ==
    [][\A c \in 1..MaxCallers :
          (IssuesRequest(c) /\ domain_cooldown[caller[c].origin].penalized) =>
              now >= domain_cooldown[caller[c].origin].last_access
                         + domain_cooldown[caller[c].origin].cooldown]_vars

\* Job j waits for the semaphore.
Queued(j) == j \in DOMAIN job /\ job[j].pc = "queued"

\* C32: when every request and every sleep returns, download_batch returns,
\* every queued job is admitted by the semaphore, and at the return every job
\* has ended with an outcome.
C32_BatchTerminates ==
    /\ <>(phase = "returned")
    /\ \A j \in Jobs : Queued(j) ~> ~Queued(j)
    /\ [](phase = "returned" =>
             \A j \in DOMAIN job :
                 /\ job[j].pc = "collected"
                 /\ job[j].outcome \in {"success", "skip", "failure", "uncounted"})

C32_Witness ==
    /\ phase = "returned"
    /\ cfg.max_workers = 1 /\ cfg.max_retries = MaxRetriesCfg
    /\ Len(tasks) = MaxBatch
    /\ \E j \in DOMAIN job :
          job[j].outcome = "failure" /\ job[j].attempts = cfg.max_retries + 1
    /\ \E j \in DOMAIN job : job[j].outcome = "success"

====
